---- MODULE Spec2Model ----
(***************************************************************************)
(* Model of the decimation expression engine (core.js): tokenizer,         *)
(* precedence-climbing parser, the two identity-keyed AST caches of        *)
(* create(), the value preprocessor and the interpreter.                   *)
(*                                                                         *)
(* A fragment (one string of a TemplateStringsArray) is a sequence of      *)
(* one-character strings.  A template is a sequence of fragments.          *)
(* The text of a NUMBER token is kept as its sequence of characters, the   *)
(* name of a FUNCTION token as one string.                                 *)
(* The numeric backend (decimal.js) is external; its values are modelled   *)
(* as integers plus one non-finite instance.                               *)
(***************************************************************************)
EXTENDS Integers, Sequences, FiniteSets, TLC

\* ------------------------------------------------------------------ bounds
\* number of distinct fragment-sequence objects (identities) the callers hold
NumIdent == 2
\* longest token stream (EOF excluded) of the comparison profile
MaxCmpLen == 9
\* longest token stream (EOF excluded) of the arithmetic profile
MaxArithLen == 7
\* longest token stream (EOF excluded) of the unrestricted profile
MaxAnyLen == 3
\* profile "call": the length of the longest stream drawn
MaxCallLen == 8
\* tokenizer runs: the fragments of a sequence and the characters in all of them
\* parser position: the longest stream on which every entry of a parsing
\* method is tried
MaxEntryLen == 5
MaxFragments == 3
MaxChars == 4

\* ------------------------------------------------------------ operators
COMPARISON_OPS == {"<", "<=", "==", ">", ">=", "!="}

\* faulty variant: no operator is right-associative
RightAssocNone == {}

RIGHT_ASSOC == {"**"}

PRECEDENCE(op) ==
    CASE op \in COMPARISON_OPS -> 1
      [] op \in {"+", "-"} -> 2
      [] op \in {"*", "/"} -> 3
      [] op = "**" -> 4

\* ---------------------------------------------------------------- tokens
ValueTok(i) == [type |-> "VALUE", value |-> i]
NumberTok(s) == [type |-> "NUMBER", value |-> s]
OperatorTok(op) == [type |-> "OPERATOR", value |-> op]
FunctionTok(name) == [type |-> "FUNCTION", value |-> name]
LParenTok == [type |-> "LPAREN"]
RParenTok == [type |-> "RPAREN"]
CommaTok == [type |-> "COMMA"]
EofTok == [type |-> "EOF"]

\* --------------------------------------------------------------- results
\* a thrown Error: kind names the message, detail its interpolated part
Throw(kind, detail) == [ok |-> FALSE, err |-> [kind |-> kind, detail |-> detail]]

\* ------------------------------------------------------------- tokenizer
Digits == {"0", "1", "2", "3", "4", "5", "6", "7", "8", "9"}

Lower == {"a", "b", "c", "d", "e", "f", "g", "h", "i", "j", "k", "l", "m",
          "n", "o", "p", "q", "r", "s", "t", "u", "v", "w", "x", "y", "z"}

\* str[j + 1] of the source (0-based j); "" stands for undefined
CharAt(str, j) == IF j + 1 <= Len(str) THEN str[j + 1] ELSE ""

\* last index (0-based) of the digit/dot run that starts at j
RECURSIVE NumberEnd(_, _)
NumberEnd(str, j) ==
    IF j + 1 < Len(str) /\ (CharAt(str, j + 1) \in Digits \/ CharAt(str, j + 1) = ".")
    THEN NumberEnd(str, j + 1)
    ELSE j

\* last index (0-based) of the lowercase run that starts at j
RECURSIVE NameEnd(_, _)
NameEnd(str, j) ==
    IF j + 1 < Len(str) /\ CharAt(str, j + 1) \in Lower
    THEN NameEnd(str, j + 1)
    ELSE j

\* the characters str[a..b] (0-based, inclusive) joined into one string
RECURSIVE Join(_, _, _)
Join(str, a, b) == IF a > b THEN "" ELSE CharAt(str, a) \o Join(str, a + 1, b)

\* one pass of the inner loop of tokenize at 0-based index j: the token
\* pushed (none for whitespace) and the index the loop continues from
ScanChar(str, j) ==
    LET char == CharAt(str, j)
        next == CharAt(str, j + 1)
        Push(tok, n) == [ok |-> TRUE, push |-> <<tok>>, next |-> n]
    IN  IF char \in {" ", "\t", "\n"} THEN [ok |-> TRUE, push |-> <<>>, next |-> j + 1]
        ELSE IF char = "(" THEN Push(LParenTok, j + 1)
        ELSE IF char = ")" THEN Push(RParenTok, j + 1)
        ELSE IF char = "," THEN Push(CommaTok, j + 1)
        ELSE IF char = "*" /\ next = "*" THEN Push(OperatorTok("**"), j + 2)
        ELSE IF char = "=" /\ next = "=" THEN Push(OperatorTok("=="), j + 2)
        ELSE IF char = "!" /\ next = "=" THEN Push(OperatorTok("!="), j + 2)
        ELSE IF char = "<" /\ next = "=" THEN Push(OperatorTok("<="), j + 2)
        ELSE IF char = ">" /\ next = "=" THEN Push(OperatorTok(">="), j + 2)
        ELSE IF char = "<" THEN Push(OperatorTok("<"), j + 1)
        ELSE IF char = ">" THEN Push(OperatorTok(">"), j + 1)
        ELSE IF char \in {"+", "-", "*", "/"} THEN Push(OperatorTok(char), j + 1)
        ELSE IF char \in Digits
             THEN Push(NumberTok(SubSeq(str, j + 1, NumberEnd(str, j) + 1)),
                       NumberEnd(str, j) + 1)
        ELSE IF char \in Lower
             THEN Push(FunctionTok(Join(str, j, NameEnd(str, j))), NameEnd(str, j) + 1)
        ELSE Throw("Unexpected character", char)

\* the inner loop of tokenize over one fragment, from 0-based index j
RECURSIVE TokenizeStr(_, _, _)
RECURSIVE TokenizeStrNext(_, _, _)
TokenizeStrNext(str, tokens, scan) ==
    IF ~scan.ok THEN scan ELSE TokenizeStr(str, scan.next, tokens \o scan.push)

TokenizeStr(str, j, tokens) ==
    IF j >= Len(str) THEN [ok |-> TRUE, tokens |-> tokens]
    ELSE TokenizeStrNext(str, tokens, ScanChar(str, j))

\* the outer loop of tokenize, from 0-based fragment index i
RECURSIVE TokenizeFrom(_, _, _)
RECURSIVE TokenizeFromNext(_, _, _)
\* faulty variant: a VALUE token is pushed after every fragment, the last included
TokenizeFromNextValueAlways(template, i, r) ==
    IF ~r.ok THEN r
    ELSE TokenizeFrom(template, i + 1, Append(r.tokens, ValueTok(i)))

TokenizeFromNext(template, i, r) ==
    IF ~r.ok THEN r
    ELSE TokenizeFrom(template, i + 1,
                      IF i < Len(template) - 1 THEN Append(r.tokens, ValueTok(i))
                      ELSE r.tokens)

TokenizeFrom(template, i, tokens) ==
    IF i >= Len(template) THEN [ok |-> TRUE, tokens |-> Append(tokens, EofTok)]
    ELSE TokenizeFromNext(template, i, TokenizeStr(template[i + 1], 0, tokens))

tokenize(template) == TokenizeFrom(template, 0, <<>>)

\* ------------------------------------------------------------------- AST
ValueNode(index) == [type |-> "value", index |-> index]
NumberNode(value) == [type |-> "number", value |-> value]
UnaryNode(op, operand) == [type |-> "unary", op |-> op, operand |-> operand]
BinaryNode(op, left, right) == [type |-> "binary", op |-> op, left |-> left, right |-> right]
FunctionNode(name, args) == [type |-> "function", name |-> name, args |-> args]

\* ---------------------------------------------------------------- parser
\* The ASTParser fields pos and hasTopLevelComparison are threaded through
\* the operators; a successful step returns the node and the new fields.
Parsed(node, pos, flag) == [ok |-> TRUE, node |-> node, pos |-> pos, hasTopLevelComparison |-> flag]

\* reading .type of tokens[pos] when pos is past the end of the array
TypeErrorUndefined == Throw("TypeError", "undefined")

InRange(tokens, pos) == pos < Len(tokens)

current(tokens, pos) == tokens[pos + 1]

validFunctions == {"abs", "ceil", "floor", "round", "clamp", "sum"}

\* the checks made after the argument list of a call is consumed
FinishCall(funcName, args, pos, flag) ==
    IF funcName \notin validFunctions THEN Throw("Unknown function", funcName)
    ELSE IF funcName = "clamp" /\ Len(args) # 3
         THEN Throw("clamp() requires 3 arguments", funcName)
    ELSE IF funcName # "clamp" /\ Len(args) # 1
         THEN Throw("requires 1 argument", funcName)
    ELSE Parsed(FunctionNode(funcName, args), pos, flag)

RECURSIVE parsePrimary(_, _, _, _)
RECURSIVE parseExpression(_, _, _, _, _, _)
RECURSIVE ParseArgs(_, _, _, _, _, _)
RECURSIVE ParseArgsNext(_, _, _, _, _)
RECURSIVE ExpressionLoop(_, _, _, _, _, _, _)
RECURSIVE ExpressionLoopNext(_, _, _, _, _, _, _)

\* the body of the argument loop after parseExpression returned r
ParseArgsNext(tokens, mode, funcName, args, r) ==
    IF ~r.ok THEN r
    ELSE IF ~InRange(tokens, r.pos) THEN TypeErrorUndefined
    ELSE IF current(tokens, r.pos).type \notin {"COMMA", "RPAREN"}
         THEN Throw("Expected comma or closing parenthesis in function call", "")
    ELSE ParseArgs(tokens, mode,
                   IF current(tokens, r.pos).type = "COMMA" THEN r.pos + 1 ELSE r.pos,
                   r.hasTopLevelComparison, funcName, Append(args, r.node))

\* the while loop that collects the arguments of a call
ParseArgs(tokens, mode, pos, flag, funcName, args) ==
    IF ~InRange(tokens, pos) THEN TypeErrorUndefined
    ELSE IF current(tokens, pos).type = "RPAREN"
         THEN FinishCall(funcName, args, pos + 1, flag)
    ELSE ParseArgsNext(tokens, mode, funcName, args,
                       parseExpression(tokens, mode, pos, flag, 0, FALSE))

\* the unary branch after the operand r is parsed
FinishUnary(op, r) ==
    IF ~r.ok THEN r ELSE Parsed(UnaryNode(op, r.node), r.pos, r.hasTopLevelComparison)

\* faulty variant: the token after the inner expression is consumed unchecked
FinishParenUnchecked(tokens, r) ==
    IF ~r.ok THEN r
    ELSE IF ~InRange(tokens, r.pos) THEN TypeErrorUndefined
    ELSE Parsed(r.node, r.pos + 1, r.hasTopLevelComparison)

\* the parenthesis branch after the inner expression r is parsed
FinishParen(tokens, r) ==
    IF ~r.ok THEN r
    ELSE IF ~InRange(tokens, r.pos) THEN TypeErrorUndefined
    ELSE IF current(tokens, r.pos).type # "RPAREN"
         THEN Throw("Expected closing parenthesis", "")
    ELSE Parsed(r.node, r.pos + 1, r.hasTopLevelComparison)

\* the function branch, the name at pos already read
StartCall(tokens, mode, pos, flag, funcName) ==
    IF ~InRange(tokens, pos + 1) THEN TypeErrorUndefined
    ELSE IF current(tokens, pos + 1).type # "LPAREN"
         THEN Throw("Expected '(' after function name", funcName)
    ELSE ParseArgs(tokens, mode, pos + 2, flag, funcName, <<>>)

\* faulty variant: the operand of a unary operator is parsed as an expression of
\* the precedence of **, so the unary operator binds looser than **
parsePrimaryLooseUnary(tokens, mode, pos, flag) ==
    IF ~InRange(tokens, pos) THEN TypeErrorUndefined
    ELSE IF current(tokens, pos).type = "VALUE"
         THEN Parsed(ValueNode(current(tokens, pos).value), pos + 1, flag)
    ELSE IF current(tokens, pos).type = "NUMBER"
         THEN Parsed(NumberNode(current(tokens, pos).value), pos + 1, flag)
    ELSE IF current(tokens, pos).type = "FUNCTION"
         THEN StartCall(tokens, mode, pos, flag, current(tokens, pos).value)
    ELSE IF current(tokens, pos).type = "OPERATOR" /\ current(tokens, pos).value \in {"+", "-"}
         THEN FinishUnary(current(tokens, pos).value,
                          parseExpression(tokens, mode, pos + 1, flag, 4, FALSE))
    ELSE IF current(tokens, pos).type = "LPAREN"
         THEN FinishParen(tokens, parseExpression(tokens, mode, pos + 1, flag, 0, FALSE))
    ELSE Throw("Unexpected token", current(tokens, pos).type)

parsePrimary(tokens, mode, pos, flag) ==
    IF ~InRange(tokens, pos) THEN TypeErrorUndefined
    ELSE IF current(tokens, pos).type = "VALUE"
         THEN Parsed(ValueNode(current(tokens, pos).value), pos + 1, flag)
    ELSE IF current(tokens, pos).type = "NUMBER"
         THEN Parsed(NumberNode(current(tokens, pos).value), pos + 1, flag)
    ELSE IF current(tokens, pos).type = "FUNCTION"
         THEN StartCall(tokens, mode, pos, flag, current(tokens, pos).value)
    ELSE IF current(tokens, pos).type = "OPERATOR" /\ current(tokens, pos).value \in {"+", "-"}
         THEN FinishUnary(current(tokens, pos).value,
                          parsePrimary(tokens, mode, pos + 1, flag))
    ELSE IF current(tokens, pos).type = "LPAREN"
         THEN FinishParen(tokens, parseExpression(tokens, mode, pos + 1, flag, 0, FALSE))
    ELSE Throw("Unexpected token", current(tokens, pos).type)

\* the end of one pass of the loop, the right operand r parsed
ExpressionLoopNext(tokens, mode, op, left, minPrec, isTopLevel, r) ==
    IF ~r.ok THEN r
    ELSE ExpressionLoop(tokens, mode, r.pos, r.hasTopLevelComparison,
                        BinaryNode(op, left, r.node), minPrec, isTopLevel)

\* faulty variant: math refuses a comparison at the top level only
OperatorCheckTopOnly(mode, op, flag, isTopLevel) ==
    IF op \in COMPARISON_OPS /\ mode = "math" /\ isTopLevel
    THEN "Comparison operator can only be used in 'is' template"
    ELSE IF op \in COMPARISON_OPS /\ mode = "is" /\ ~isTopLevel
         THEN "Comparison operator can only be used at the top level"
    ELSE IF op \in COMPARISON_OPS /\ mode = "is" /\ flag
         THEN "Chained comparisons are not supported"
    ELSE ""

\* faulty variant: is tests for a chained comparison before it tests the level
OperatorCheckChainFirst(mode, op, flag, isTopLevel) ==
    IF op \in COMPARISON_OPS /\ mode = "math"
    THEN "Comparison operator can only be used in 'is' template"
    ELSE IF op \in COMPARISON_OPS /\ mode = "is" /\ flag
         THEN "Chained comparisons are not supported"
    ELSE IF op \in COMPARISON_OPS /\ mode = "is" /\ ~isTopLevel
         THEN "Comparison operator can only be used at the top level"
    ELSE ""

\* the checks of one pass of the loop on the operator op at pos; "" when the
\* pass goes on to consume the operator
OperatorCheck(mode, op, flag, isTopLevel) ==
    IF op \in COMPARISON_OPS /\ mode = "math"
    THEN "Comparison operator can only be used in 'is' template"
    ELSE IF op \in COMPARISON_OPS /\ mode = "is" /\ ~isTopLevel
         THEN "Comparison operator can only be used at the top level"
    ELSE IF op \in COMPARISON_OPS /\ mode = "is" /\ flag
         THEN "Chained comparisons are not supported"
    ELSE ""

\* the while (true) loop of parseExpression, with left already parsed
ExpressionLoop(tokens, mode, pos, flag, left, minPrec, isTopLevel) ==
    IF ~InRange(tokens, pos) THEN TypeErrorUndefined
    ELSE IF current(tokens, pos).type # "OPERATOR" THEN Parsed(left, pos, flag)
    ELSE IF PRECEDENCE(current(tokens, pos).value) < minPrec THEN Parsed(left, pos, flag)
    ELSE IF OperatorCheck(mode, current(tokens, pos).value, flag, isTopLevel) # ""
         THEN Throw(OperatorCheck(mode, current(tokens, pos).value, flag, isTopLevel),
                    IF OperatorCheck(mode, current(tokens, pos).value, flag, isTopLevel)
                           = "Chained comparisons are not supported"
                    THEN "" ELSE current(tokens, pos).value)
    ELSE ExpressionLoopNext(
             tokens, mode, current(tokens, pos).value, left, minPrec, isTopLevel,
             parseExpression(
                 tokens, mode, pos + 1,
                 flag \/ (current(tokens, pos).value \in COMPARISON_OPS /\ mode = "is"),
                 IF current(tokens, pos).value \in RIGHT_ASSOC
                 THEN PRECEDENCE(current(tokens, pos).value)
                 ELSE PRECEDENCE(current(tokens, pos).value) + 1,
                 isTopLevel))

\* parseExpression after its first parsePrimary returned p
ExpressionLoopStart(tokens, mode, minPrec, isTopLevel, p) ==
    IF ~p.ok THEN p
    ELSE ExpressionLoop(tokens, mode, p.pos, p.hasTopLevelComparison, p.node,
                        minPrec, isTopLevel)

parseExpression(tokens, mode, pos, flag, minPrec, isTopLevel) ==
    ExpressionLoopStart(tokens, mode, minPrec, isTopLevel,
                        parsePrimary(tokens, mode, pos, flag))

\* faulty variant: the missing-comparison check of is made before the EOF check
ValidateComparisonFirst(tokens, mode, r) ==
    IF ~r.ok THEN r
    ELSE IF ~InRange(tokens, r.pos) THEN TypeErrorUndefined
    ELSE IF mode = "is" /\ ~r.hasTopLevelComparison
         THEN Throw("'is' template requires a comparison operator", "")
    ELSE IF current(tokens, r.pos).type # "EOF"
         THEN Throw("Unexpected tokens after expression", "")
    ELSE [ok |-> TRUE, ast |-> r.node]

\* faulty variant: is does not require a comparison
ValidateNoComparisonCheck(tokens, mode, r) ==
    IF ~r.ok THEN r
    ELSE IF ~InRange(tokens, r.pos) THEN TypeErrorUndefined
    ELSE IF current(tokens, r.pos).type # "EOF"
         THEN Throw("Unexpected tokens after expression", "")
    ELSE [ok |-> TRUE, ast |-> r.node]

\* the checks of math and is after parseExpression returned r
Validate(tokens, mode, r) ==
    IF ~r.ok THEN r
    ELSE IF ~InRange(tokens, r.pos) THEN TypeErrorUndefined
    ELSE IF current(tokens, r.pos).type # "EOF"
         THEN Throw("Unexpected tokens after expression", "")
    ELSE IF mode = "is" /\ ~r.hasTopLevelComparison
         THEN Throw("'is' template requires a comparison operator", "")
    ELSE [ok |-> TRUE, ast |-> r.node]

\* math / is, from the cache miss to the cache store: tokens -> AST or error
\* (mode is "math" or "is")
Compile(tokens, mode) ==
    Validate(tokens, mode, parseExpression(tokens, mode, 0, FALSE, 0, TRUE))

\* ------------------------------------------------------- numeric backend
\* The backend (DecimalConstructor) is supplied by the caller.  Its numbers
\* are modelled as integers; NaN and the infinities are one non-finite
\* instance; a quotient is truncated and the fraction digits of a literal
\* are dropped.
Num(n) == [kind |-> "num", v |-> n]
Dec(n) == [kind |-> "dec", v |-> n]
DecNaN == [kind |-> "nan"]
Arr(elems) == [kind |-> "arr", elems |-> elems]
Bool(b) == [kind |-> "bool", b |-> b]

\* val instanceof DecimalConstructor
IsDecimal(x) == x.kind \in {"dec", "nan"}

\* Array.isArray(val)
IsArray(x) == x.kind = "arr"

Returned(val) == [ok |-> TRUE, val |-> val]

DigitValue(c) ==
    CASE c = "0" -> 0 [] c = "1" -> 1 [] c = "2" -> 2 [] c = "3" -> 3 [] c = "4" -> 4
      [] c = "5" -> 5 [] c = "6" -> 6 [] c = "7" -> 7 [] c = "8" -> 8 [] c = "9" -> 9

\* the integer written by the digits of text before its first "."
RECURSIVE IntegerPart(_, _)
IntegerPart(text, acc) ==
    IF text = <<>> \/ Head(text) = "." THEN acc
    ELSE IntegerPart(Tail(text), 10 * acc + DigitValue(Head(text)))

DotCount(text) == Cardinality({i \in DOMAIN text : text[i] = "."})

\* new Decimal(node.value) for the text of a NUMBER token
DecimalOfText(text) ==
    IF DotCount(text) > 1 THEN Throw("DecimalError", "Invalid argument")
    ELSE Returned(Dec(IntegerPart(text, 0)))

\* new Decimal(val) for a runtime value
NewDecimal(val) ==
    IF IsDecimal(val) THEN Returned(val)
    ELSE IF val.kind = "num" THEN Returned(Dec(val.v))
    ELSE Throw("DecimalError", "Invalid argument")

RECURSIVE Power(_, _)
Power(a, n) == IF n = 0 THEN 1 ELSE a * Power(a, n - 1)

Truncate(a, b) ==
    LET q == (IF a < 0 THEN -a ELSE a) \div (IF b < 0 THEN -b ELSE b)
    IN  IF (a < 0) = (b < 0) THEN q ELSE -q

DecDiv(a, b) ==
    IF a.kind = "nan" \/ b.kind = "nan" \/ b.v = 0 THEN DecNaN ELSE Dec(Truncate(a.v, b.v))

DecArith(op, a, b) ==
    IF a.kind = "nan" \/ b.kind = "nan" THEN DecNaN
    ELSE CASE op = "+" -> Dec(a.v + b.v)
           [] op = "-" -> Dec(a.v - b.v)
           [] op = "*" -> Dec(a.v * b.v)
           [] op = "/" -> DecDiv(a, b)
           [] op = "**" -> IF b.v >= 0 THEN Dec(Power(a.v, b.v))
                           ELSE DecDiv(Dec(1), Dec(Power(a.v, -b.v)))

DecCompare(op, a, b) ==
    IF a.kind = "nan" \/ b.kind = "nan" THEN op = "!="
    ELSE CASE op = "<" -> a.v < b.v
           [] op = "<=" -> a.v <= b.v
           [] op = "==" -> a.v = b.v
           [] op = ">" -> a.v > b.v
           [] op = ">=" -> a.v >= b.v
           [] op = "!=" -> ~(a.v = b.v)

DecNeg(a) == IF a.kind = "nan" THEN DecNaN ELSE Dec(-a.v)

DecAbs(a) == IF a.kind = "nan" THEN DecNaN ELSE Dec(IF a.v < 0 THEN -a.v ELSE a.v)

\* x.clamp(min, max) for a Decimal x
DecClamp(x, min, max) ==
    LET lo == NewDecimal(min)
        hi == NewDecimal(max)
    IN  IF ~lo.ok THEN lo
        ELSE IF ~hi.ok THEN hi
        ELSE IF lo.val.kind = "nan" \/ hi.val.kind = "nan" THEN Returned(DecNaN)
        ELSE IF lo.val.v > hi.val.v THEN Throw("DecimalError", "Invalid argument")
        ELSE IF x.kind = "nan" THEN Returned(DecNaN)
        ELSE IF x.v < lo.val.v THEN Returned(lo.val)
        ELSE IF x.v > hi.val.v THEN Returned(hi.val)
        ELSE Returned(x)

\* Decimal.sum(acc, ...arr): every argument goes through new Decimal
RECURSIVE DecimalSum(_, _)
DecimalSum(acc, arr) ==
    IF arr = <<>> THEN Returned(acc)
    ELSE LET d == NewDecimal(Head(arr))
         IN  IF ~d.ok THEN d
             ELSE DecimalSum(DecArith("+", acc, d.val), Tail(arr))

\* ------------------------------------------------------ value preprocessor
\* values.map(...); the first constructor failure, if any, is what is thrown
preprocessValues(values) ==
    LET conv == [i \in DOMAIN values |->
                    IF IsDecimal(values[i]) \/ IsArray(values[i])
                    THEN Returned(values[i])
                    ELSE NewDecimal(values[i])]
        bad == {i \in DOMAIN values : ~conv[i].ok}
    IN  IF bad # {} THEN conv[CHOOSE i \in bad : \A j \in bad : i <= j]
        ELSE [ok |-> TRUE, values |-> [i \in DOMAIN values |-> conv[i].val]]

\* ------------------------------------------------------------ interpreter
\* faulty variant: the sum is not seeded with 0, so an empty array leaves the
\* backend's sum without an argument
InterpretSumUnseeded(arr) ==
    IF ~IsArray(arr) THEN Throw("sum() requires an array argument", "")
    ELSE IF arr.elems = <<>> THEN Throw("DecimalError", "Invalid argument")
    ELSE DecimalSum(Dec(0), arr.elems)

\* case 'sum' of interpret
InterpretSum(arr) ==
    IF ~IsArray(arr) THEN Throw("sum() requires an array argument", "")
    ELSE DecimalSum(Dec(0), arr.elems)

\* the switch over node.name, the arguments already evaluated
InterpretCall(name, args) ==
    IF name \in {"abs", "ceil", "floor", "round", "clamp"} /\ ~IsDecimal(args[1])
    THEN Throw("TypeError", "not a function")
    ELSE CASE name = "abs" -> Returned(DecAbs(args[1]))
           [] name \in {"ceil", "floor", "round"} -> Returned(args[1])
           [] name = "clamp" -> DecClamp(args[1], args[2], args[3])
           [] name = "sum" -> InterpretSum(args[1])
           [] OTHER -> Throw("Unknown function", name)

\* the unary branch, the operand evaluated
InterpretUnary(op, operand) ==
    IF ~operand.ok THEN operand
    ELSE IF ~IsDecimal(operand.val)
         THEN Throw("Unary operation operand must be a Decimal instance", "")
    ELSE IF op = "-" THEN Returned(DecNeg(operand.val))
    ELSE Returned(operand.val)

\* the binary branch, both operands evaluated (left first)
InterpretBinary(op, left, right) ==
    IF ~left.ok THEN left
    ELSE IF ~right.ok THEN right
    ELSE IF ~(IsDecimal(left.val) /\ IsDecimal(right.val))
         THEN Throw("Binary operation operands must be Decimal instances", "")
    ELSE IF op \in COMPARISON_OPS THEN Returned(Bool(DecCompare(op, left.val, right.val)))
    ELSE Returned(DecArith(op, left.val, right.val))

\* the function branch, node.args.map(...) evaluated to rs
InterpretFunction(name, rs) ==
    IF \E i \in DOMAIN rs : ~rs[i].ok
    THEN rs[CHOOSE i \in DOMAIN rs : ~rs[i].ok /\ \A j \in 1 .. (i - 1) : rs[j].ok]
    ELSE InterpretCall(name, [i \in DOMAIN rs |-> rs[i].val])

RECURSIVE interpret(_, _)
interpret(node, values) ==
    IF node.type = "value" THEN Returned(values[node.index + 1])
    ELSE IF node.type = "number" THEN DecimalOfText(node.value)
    ELSE IF node.type = "unary"
         THEN InterpretUnary(node.op, interpret(node.operand, values))
    ELSE IF node.type = "binary"
         THEN InterpretBinary(node.op, interpret(node.left, values),
                              interpret(node.right, values))
    ELSE IF node.type = "function"
         THEN InterpretFunction(node.name,
                                [i \in DOMAIN node.args |-> interpret(node.args[i], values)])
    ELSE Throw("Unknown node type", "")

\* ------------------------------------------------------------------ state
VARIABLES
    templates,   \* the fragment-sequence objects the callers hold, by identity
    mathCache,   \* create(): mathCache, identity -> AST
    isCache,     \* create(): isCache, identity -> AST
    validated,   \* history: the (entry point, identity) pairs that passed validation
    last,        \* the last call of math or is: its inputs, its steps, its outcome
    profile,     \* parser runs: the token alphabet the stream is drawn from
    stream,      \* parser runs: the token stream under construction, EOF excluded
    compiled,    \* parser runs: the mode and outcome of Compile on the stream
    fragments,   \* tokenizer runs: the fragment sequence under construction
    scanned      \* tokenizer runs: what tokenize returned for the fragments

vars == <<templates, mathCache, isCache, validated, last, profile, stream, compiled,
          fragments, scanned>>

callVars == <<templates, mathCache, isCache, validated, last>>

parseVars == <<profile, stream, compiled>>

lexVars == <<fragments, scanned>>

Ident == 1 .. NumIdent

\* WeakMap.get of a key that has no entry
Undefined == [type |-> "undefined"]

NoCall == [fn |-> "none"]

NotCompiled == [mode |-> "none"]

NotScanned == [run |-> "none"]

\* a TemplateStringsArray has at least one string
NoFragments == << <<>> >>

\* ---------------------------------------------------------------- inputs
\* The templates of the call sites, written fragment by fragment.
TplAdd == << <<>>, <<" ", "+", " ", "1">> >>                   \* `${a} + 1`
TplLess == << <<>>, <<" ", "<", " ", "2">> >>                  \* `${a} < 2`
TplValue == << <<>>, <<>> >>                                   \* `${a}`
TplSum == << <<"s", "u", "m", "(">>, <<")">> >>                \* `sum(${a})`
TplSumGreater == << <<"s", "u", "m", "(">>, <<")", ">", "2">> >> \* `sum(${a})>2`
TplTrailing == << <<>>, <<" ", "1">> >>                        \* `${a} 1`
TplLexical == << <<>>, <<"=", "1">> >>                         \* `${a}=1`

TemplatePool == {TplAdd, TplLess, TplValue, TplSum, TplSumGreater, TplTrailing, TplLexical}

\* The interpolated values: scalars, backend instances and arrays of them.
ElementPool == {Num(1), Dec(2)}

ArrayPool == {Arr(<<>>), Arr(<<Dec(2)>>), Arr(<<Num(1), Dec(2)>>)}

ValuePool == ElementPool \cup ArrayPool

\* the value sequences a call site of this template can pass
ValuesFor(template) == [1 .. (Len(template) - 1) -> ValuePool]

\* ----------------------------------------------------------------- caches
\* faulty variant: the lookup goes by the text of the fragments, not by the object
mathCacheGetByText(k) ==
    IF \E j \in Ident : templates[j] = templates[k] /\ mathCache[j] # Undefined
    THEN mathCache[CHOOSE j \in Ident : templates[j] = templates[k] /\ mathCache[j] # Undefined]
    ELSE Undefined

\* faulty variant: one cache for both entry points
mathCacheGetShared(k) == IF mathCache[k] # Undefined THEN mathCache[k] ELSE isCache[k]

mathCacheGet(k) == mathCache[k]

\* faulty variant: is falls back on what math has cached for the identity
isCacheGetShared(k) == IF isCache[k] # Undefined THEN isCache[k] ELSE mathCache[k]

isCacheGet(k) == isCache[k]

\* faulty variant: the AST is never stored
CacheSetDropped(cache, k, ast) == cache

CacheSet(cache, k, ast) == [cache EXCEPT ![k] = ast]

\* ------------------------------------------------------------ math and is
CompileResult(c) ==
    IF c.ok THEN [ok |-> TRUE, lexed |-> TRUE, ast |-> c.ast]
    ELSE [ok |-> FALSE, lexed |-> TRUE, err |-> c.err]

\* the parse and validation of the tokens tk of a cache miss; lexed tells
\* whether the parser ran
CompileTokens(fn, tk) ==
    IF ~tk.ok THEN [ok |-> FALSE, lexed |-> FALSE, err |-> tk.err]
    ELSE CompileResult(Compile(tk.tokens, fn))

\* The cache miss branch: tokenize, parse, validate.
Front(template, fn) == CompileTokens(fn, tokenize(template))

\* preprocessValues and interpret, for the AST the call ended up with
Evaluate(ast, pv) == IF ~pv.ok THEN pv ELSE interpret(ast, pv.values)

\* One call of an entry point: cached is the result of the cache lookup, c
\* the result of the miss branch.  Returns the AST to store (Undefined when
\* the call stores nothing) and the record of the call.
CallResult(fn, cached, k, values, c) ==
    [store |-> IF cached = Undefined /\ c.ok THEN c.ast ELSE Undefined,
     call |-> [fn |-> fn, k |-> k, values |-> values,
               tokenized |-> cached = Undefined,
               parsed |-> cached = Undefined /\ c.lexed,
               evaluated |-> cached # Undefined \/ c.ok,
               outcome |-> IF cached # Undefined
                           THEN Evaluate(cached, preprocessValues(values))
                           ELSE IF ~c.ok THEN [ok |-> FALSE, err |-> c.err]
                           ELSE Evaluate(c.ast, preprocessValues(values))]]

Call(fn, cached, k, values) ==
    CallResult(fn, cached, k, values,
               IF cached = Undefined THEN Front(templates[k], fn)
               ELSE [ok |-> TRUE, lexed |-> TRUE, ast |-> cached])

MathStore(k, r) ==
    /\ mathCache' = IF r.store # Undefined THEN CacheSet(mathCache, k, r.store)
                    ELSE mathCache
    /\ validated' = IF r.store # Undefined THEN validated \cup {<<"math", k>>}
                    ELSE validated
    /\ last' = r.call

Math(k, values) ==
    /\ MathStore(k, Call("math", mathCacheGet(k), k, values))
    /\ UNCHANGED <<templates, isCache, parseVars, lexVars>>

IsStore(k, r) ==
    /\ isCache' = IF r.store # Undefined THEN CacheSet(isCache, k, r.store)
                  ELSE isCache
    /\ validated' = IF r.store # Undefined THEN validated \cup {<<"is", k>>}
                    ELSE validated
    /\ last' = r.call

Is(k, values) ==
    /\ IsStore(k, Call("is", isCacheGet(k), k, values))
    /\ UNCHANGED <<templates, mathCache, parseVars, lexVars>>

CallMath == \E k \in Ident : \E values \in ValuesFor(templates[k]) : Math(k, values)

CallIs == \E k \in Ident : \E values \in ValuesFor(templates[k]) : Is(k, values)

\* the state after create(): both caches empty, no call made yet
Init ==
    /\ templates \in [Ident -> TemplatePool]
    /\ mathCache = [k \in Ident |-> Undefined]
    /\ isCache = [k \in Ident |-> Undefined]
    /\ validated = {}
    /\ last = NoCall
    /\ profile = "none"
    /\ stream = <<>>
    /\ compiled = NotCompiled
    /\ fragments = NoFragments
    /\ scanned = NotScanned

Next == CallMath \/ CallIs

Spec == Init /\ [][Next]_vars

\* ------------------------------------------------------------ parser runs
\* The parser on its own: a token stream is drawn token by token from the
\* alphabet of a profile, then math or is compiles it.  Every stream is one
\* tokenize can return: the VALUE tokens carry 0, 1, 2, ... in order and EOF
\* ends it.  The profiles "cmp" and "arith" draw streams in which operands
\* and operators alternate and no parenthesis closes unopened (complete or
\* unfinished expressions); the profile "any" draws every stream; the profile
\* "call" draws a function name followed by every stream of values,
\* parentheses and commas.
Profiles == {"cmp", "arith", "any", "call"}

MaxLen(p) ==
    CASE p = "cmp" -> MaxCmpLen
      [] p = "arith" -> MaxArithLen
      [] p = "any" -> MaxAnyLen
      [] p = "call" -> MaxCallLen

ArithmeticOps == {"+", "-", "*", "/", "**"}

NextValue(toks) == ValueTok(Cardinality({i \in DOMAIN toks : toks[i].type = "VALUE"}))

\* the tokens a profile draws where an operand may start
OperandTokens(p, toks) ==
    CASE p = "cmp" -> {NextValue(toks), LParenTok, FunctionTok("abs"), OperatorTok("-")}
      [] p = "arith" -> {NextValue(toks), LParenTok, OperatorTok("-"), OperatorTok("+")}
      [] p = "any" -> {}

\* the tokens a profile draws after an operand
OperatorTokens(p) ==
    CASE p = "cmp" -> {OperatorTok("<"), OperatorTok("=="), OperatorTok("+"), RParenTok}
      [] p = "arith" -> {OperatorTok(op) : op \in ArithmeticOps} \cup {RParenTok}
      [] p = "any" -> {}

AnyTokens(toks) ==
    {NextValue(toks), NumberTok(<<"1">>), LParenTok, RParenTok, CommaTok}
        \cup {FunctionTok(f) : f \in {"abs", "clamp", "mean"}}
        \cup {OperatorTok(op) : op \in ArithmeticOps \cup COMPARISON_OPS}

CallTokens(toks) ==
    IF toks = <<>> THEN {FunctionTok(f) : f \in {"abs", "clamp", "mean"}}
    ELSE {NextValue(toks), LParenTok, RParenTok, CommaTok}

\* open parentheses after the first i tokens
DepthAt(toks, i) ==
    Cardinality({j \in 1 .. i : toks[j].type = "LPAREN"})
        - Cardinality({j \in 1 .. i : toks[j].type = "RPAREN"})

\* the tokens that may follow toks in profile p
Drawable(p, toks) ==
    IF p = "any" THEN AnyTokens(toks)
    ELSE IF p = "call" THEN CallTokens(toks)
    ELSE IF toks # <<>> /\ toks[Len(toks)].type = "FUNCTION" THEN {LParenTok}
    ELSE IF toks = <<>> \/ toks[Len(toks)].type \in {"OPERATOR", "LPAREN"}
         THEN OperandTokens(p, toks)
    ELSE {t \in OperatorTokens(p) : t.type = "RPAREN" => DepthAt(toks, Len(toks)) > 0}

\* the stream as tokenize returns it
Tokens == Append(stream, EofTok)

EmitToken ==
    /\ profile \in Profiles
    /\ compiled = NotCompiled
    /\ Len(stream) < MaxLen(profile)
    /\ \E t \in Drawable(profile, stream) : stream' = Append(stream, t)
    /\ UNCHANGED <<profile, compiled, callVars, lexVars>>

\* the cache miss branch of math (mode "math") or is (mode "is") on the stream
RunCompile ==
    /\ profile \in Profiles
    /\ compiled = NotCompiled
    /\ \E mode \in {"math", "is"} :
           compiled' = [mode |-> mode, result |-> Compile(Tokens, mode)]
    /\ UNCHANGED <<profile, stream, callVars, lexVars>>

InitParse ==
    /\ profile \in Profiles
    /\ stream = <<>>
    /\ compiled = NotCompiled
    /\ templates = [k \in Ident |-> TplValue]
    /\ mathCache = [k \in Ident |-> Undefined]
    /\ isCache = [k \in Ident |-> Undefined]
    /\ validated = {}
    /\ last = NoCall
    /\ fragments = NoFragments
    /\ scanned = NotScanned

NextParse == EmitToken \/ RunCompile

SpecParse == InitParse /\ [][NextParse]_vars

\* --------------------------------------------------------- tokenizer runs
\* The tokenizer on its own: a fragment sequence is written character by
\* character and fragment by fragment, then tokenize runs on it.
Chars == {" ", "1", "a", "=", "*"}

RECURSIVE TotalChars(_)
TotalChars(frags) ==
    IF frags = <<>> THEN 0 ELSE Len(Head(frags)) + TotalChars(Tail(frags))

\* one more character in the last fragment
AddChar ==
    /\ scanned = NotScanned
    /\ TotalChars(fragments) < MaxChars
    /\ \E c \in Chars :
           fragments' = [fragments EXCEPT ![Len(fragments)] = Append(@, c)]
    /\ UNCHANGED <<scanned, callVars, parseVars>>

\* an interpolation: the last fragment ends, an empty one starts
AddFragment ==
    /\ scanned = NotScanned
    /\ Len(fragments) < MaxFragments
    /\ fragments' = Append(fragments, <<>>)
    /\ UNCHANGED <<scanned, callVars, parseVars>>

RunTokenize ==
    /\ scanned = NotScanned
    /\ scanned' = tokenize(fragments)
    /\ UNCHANGED <<fragments, callVars, parseVars>>

InitTokenize ==
    /\ fragments = NoFragments
    /\ scanned = NotScanned
    /\ profile = "none"
    /\ stream = <<>>
    /\ compiled = NotCompiled
    /\ templates = [k \in Ident |-> TplValue]
    /\ mathCache = [k \in Ident |-> Undefined]
    /\ isCache = [k \in Ident |-> Undefined]
    /\ validated = {}
    /\ last = NoCall

NextTokenize == AddChar \/ AddFragment \/ RunTokenize

SpecTokenize == InitTokenize /\ [][NextTokenize]_vars

\* ------------------------------------------------------- claims on calls
EntryPoints == {"math", "is"}

CacheOf(fn) == IF fn = "math" THEN mathCache ELSE isCache

\* whether the token stream of a template holds a comparison operator
HasComparison(template) ==
    /\ tokenize(template).ok
    /\ \E i \in DOMAIN tokenize(template).tokens :
           /\ tokenize(template).tokens[i].type = "OPERATOR"
           /\ tokenize(template).tokens[i].value \in COMPARISON_OPS

\* what a call returns when it parses the text afresh and evaluates the
\* AST on the values of this very call
FreshOutcome(fn, k, values) ==
    Evaluate(Front(templates[k], fn).ast, preprocessValues(values))

\* C1: once a call of an entry point with identity k has passed validation,
\* every later call of that entry point with k neither tokenizes nor parses,
\* and its outcome is the evaluation of the text on that call's own values.
C1_NoReparse ==
    [][\A fn \in EntryPoints, k \in Ident :
          (<<fn, k>> \in validated /\ last'.fn = fn /\ last'.k = k)
              => /\ ~last'.tokenized
                 /\ ~last'.parsed
                 /\ last'.outcome = FreshOutcome(fn, k, last'.values)]_vars

\* a cache hit that evaluated successfully
C1_Witness ==
    /\ last.fn \in EntryPoints
    /\ ~last.tokenized
    /\ last.outcome.ok

\* C2: the cache key is the identity: a call with an identity that has not
\* itself passed validation under that entry point (its first call in
\* particular) tokenizes, and parses when the text lexes, whatever is cached
\* for another identity with the same text.
C2_IdentityKey ==
    [][\A fn \in EntryPoints, k \in Ident :
          (<<fn, k>> \notin validated /\ last'.fn = fn /\ last'.k = k /\ vars' # vars)
              => /\ last'.tokenized
                 /\ last'.parsed = tokenize(templates[k]).ok]_vars

\* two objects with the same text, one cached by math, the other just parsed
C2_Witness ==
    /\ templates[1] = templates[2]
    /\ last.fn = "math" /\ last.k = 2
    /\ last.tokenized /\ last.parsed
    /\ mathCache[1] # Undefined /\ mathCache[2] # Undefined

\* C3: the caches are independent: math with a text that holds a comparison
\* fails, after a full parse attempt, whatever is has cached for that
\* identity, and is with a text without comparison fails whatever math has
\* cached for it.
C3_IndependentCaches ==
    /\ (last.fn = "math" /\ HasComparison(templates[last.k]))
           => (~last.outcome.ok /\ last.tokenized /\ mathCache[last.k] = Undefined)
    /\ (last.fn = "is" /\ ~HasComparison(templates[last.k]))
           => (~last.outcome.ok /\ last.tokenized /\ isCache[last.k] = Undefined)

\* math called on a comparison text that is has already cached
C3_Witness ==
    /\ last.fn = "math"
    /\ HasComparison(templates[last.k])
    /\ isCache[last.k] # Undefined

\* C8 (as claimed): whatever math returns is a backend numeric instance.
C8_MathReturnsNumeric ==
    (last.fn = "math" /\ last.outcome.ok) => IsDecimal(last.outcome.val)

\* the plain sum of the numbers of an array
RECURSIVE PlainSum(_)
PlainSum(elems) == IF elems = <<>> THEN 0 ELSE Head(elems).v + PlainSum(Tail(elems))

\* C9: sum(x) is zero for an empty array, the sum of the elements for an
\* array of numeric values, and an error for anything that is not an array;
\* checked on math`sum(${x})` and on is`sum(${x})>2`.
C9_Sum ==
    /\ (last.fn = "math" /\ templates[last.k] = TplSum)
           => IF IsArray(last.values[1])
              THEN /\ last.outcome.ok
                   /\ last.outcome.val = Dec(PlainSum(last.values[1].elems))
                   /\ (last.values[1].elems = <<>> => last.outcome.val = Dec(0))
              ELSE /\ ~last.outcome.ok
                   /\ last.outcome.err.kind = "sum() requires an array argument"
    /\ (last.fn = "is" /\ templates[last.k] = TplSumGreater)
           => IF IsArray(last.values[1])
              THEN /\ last.outcome.ok
                   /\ last.outcome.val = Bool(PlainSum(last.values[1].elems) > 2)
              ELSE /\ ~last.outcome.ok
                   /\ last.outcome.err.kind = "sum() requires an array argument"

\* sum of an empty array returned zero
C9_Witness ==
    /\ last.fn = "math"
    /\ templates[last.k] = TplSum
    /\ last.values[1] = Arr(<<>>)
    /\ last.outcome = Returned(Dec(0))

\* parseExpression returned at the top level with a token other than EOF next
TrailingTokens(template, fn) ==
    /\ tokenize(template).ok
    /\ parseExpression(tokenize(template).tokens, fn, 0, FALSE, 0, TRUE).ok
    /\ current(tokenize(template).tokens,
               parseExpression(tokenize(template).tokens, fn, 0, FALSE, 0, TRUE).pos).type
           # "EOF"

\* C10: in both modes a call whose parse stops before EOF fails with the
\* trailing-tokens error, stores nothing and evaluates nothing; in is the
\* error is this one even when the text has no comparison.
C10_TrailingTokens ==
    (last.fn \in EntryPoints /\ last.parsed /\ TrailingTokens(templates[last.k], last.fn))
        => /\ last.outcome = Throw("Unexpected tokens after expression", "")
           /\ ~last.evaluated
           /\ CacheOf(last.fn)[last.k] = Undefined

\* is called on a text with trailing tokens and no comparison
C10_Witness ==
    /\ last.fn = "is"
    /\ last.parsed
    /\ templates[last.k] = TplTrailing
    /\ last.outcome = Throw("Unexpected tokens after expression", "")

\* ------------------------------------------------- claims on parser runs
IsComparisonAt(toks, i) == toks[i].type = "OPERATOR" /\ toks[i].value \in COMPARISON_OPS

\* the comparison operators outside every parenthesis, and those inside one
\* (the arguments of a call are inside its parentheses)
TopComparisons(toks) == {i \in DOMAIN toks : IsComparisonAt(toks, i) /\ DepthAt(toks, i) = 0}

NestedComparisons(toks) == {i \in DOMAIN toks : IsComparisonAt(toks, i) /\ DepthAt(toks, i) > 0}

\* the stream is an expression of the grammar, the mode rules left aside:
\* the parser accepts it to EOF when neither mode's comparison rule applies
WellFormed == Compile(Tokens, "none").ok

ErrorIs(kind) == ~compiled.result.ok /\ compiled.result.err.kind = kind

MissingComparison == "'is' template requires a comparison operator"
ChainedComparison == "Chained comparisons are not supported"
NestedComparison == "Comparison operator can only be used at the top level"
ComparisonInMath == "Comparison operator can only be used in 'is' template"

\* C4 (as claimed): in is, validation succeeds only with exactly one
\* comparison, at the top level; an expression without comparison fails with
\* the missing-comparison error, one with two or more top-level comparisons
\* with the chained-comparison error, one with a comparison in parentheses or
\* in a function argument with the nested-comparison error.
C4_AsClaimed ==
    (compiled.mode = "is" /\ WellFormed)
        => /\ compiled.result.ok
                  => (Cardinality(TopComparisons(stream)) = 1 /\ NestedComparisons(stream) = {})
           /\ (TopComparisons(stream) \cup NestedComparisons(stream) = {})
                  => ErrorIs(MissingComparison)
           /\ Cardinality(TopComparisons(stream)) >= 2 => ErrorIs(ChainedComparison)
           /\ NestedComparisons(stream) # {} => ErrorIs(NestedComparison)

\* the comparisons is refuses: the nested ones and every top-level one after
\* the first
Offending(toks) ==
    NestedComparisons(toks)
        \cup {i \in TopComparisons(toks) : \E j \in TopComparisons(toks) : j < i}

FirstOffending(toks) == CHOOSE i \in Offending(toks) : \A j \in Offending(toks) : i <= j

\* C4 (amended): in is, validation succeeds exactly when the expression has
\* one comparison and it is at the top level; without any comparison the
\* error is the missing-comparison error; otherwise the error is decided by
\* the first refused comparison in token order: the nested-comparison error
\* when it is nested, the chained-comparison error when it is a second
\* top-level comparison.
C4_FirstOffending ==
    (compiled.mode = "is" /\ WellFormed)
        => IF Offending(stream) # {}
           THEN IF FirstOffending(stream) \in NestedComparisons(stream)
                THEN ErrorIs(NestedComparison)
                ELSE ErrorIs(ChainedComparison)
           ELSE IF TopComparisons(stream) = {} THEN ErrorIs(MissingComparison)
           ELSE compiled.result.ok

\* an expression with two top-level comparisons followed by a nested one
C4_Witness ==
    /\ compiled.mode = "is"
    /\ WellFormed
    /\ Cardinality(TopComparisons(stream)) >= 2
    /\ NestedComparisons(stream) # {}
    /\ ErrorIs(ChainedComparison)

\* C5: in math, a token stream that holds a comparison operator anywhere, at
\* the top level, in parentheses or in a function argument, in a complete
\* expression or not, never validates: the call fails before the cache store.
C5_NoComparisonInMath ==
    (compiled.mode = "math" /\ \E i \in DOMAIN stream : IsComparisonAt(stream, i))
        => ~compiled.result.ok

\* a complete expression whose only comparison is in a function argument
C5_Witness ==
    /\ compiled.mode = "math"
    /\ WellFormed
    /\ TopComparisons(stream) = {}
    /\ \E i \in NestedComparisons(stream) : \E j \in 1 .. i : stream[j].type = "FUNCTION"
    /\ ErrorIs(ComparisonInMath)

\* the rank of an arithmetic operator in the reference grouping
ReferenceRank(op) ==
    CASE op \in {"+", "-"} -> 1
      [] op \in {"*", "/"} -> 2
      [] op = "**" -> 3

\* the operators of toks outside every parenthesis
TopOperators(toks) == {i \in DOMAIN toks : toks[i].type = "OPERATOR" /\ DepthAt(toks, i) = 0}

\* the operator at which the reference grouping splits toks: of the lowest
\* rank outside the parentheses, the last one, or the first one for **
SplitAt(toks) ==
    LET low == {i \in TopOperators(toks) :
                   \A j \in TopOperators(toks) :
                       ReferenceRank(toks[i].value) <= ReferenceRank(toks[j].value)}
    IN  IF \E i \in low : toks[i].value = "**"
        THEN CHOOSE i \in low : \A j \in low : i <= j
        ELSE CHOOSE i \in low : \A j \in low : i >= j

\* the fully parenthesized reference grouping of a complete expression made
\* of operands, binary operators and parentheses
RECURSIVE ReferenceTree(_)
ReferenceTree(toks) ==
    IF Len(toks) = 1
    THEN IF toks[1].type = "VALUE" THEN ValueNode(toks[1].value) ELSE NumberNode(toks[1].value)
    ELSE IF TopOperators(toks) = {}
         THEN ReferenceTree(SubSeq(toks, 2, Len(toks) - 1))
    ELSE BinaryNode(toks[SplitAt(toks)].value,
                    ReferenceTree(SubSeq(toks, 1, SplitAt(toks) - 1)),
                    ReferenceTree(SubSeq(toks, SplitAt(toks) + 1, Len(toks))))

\* every operator of toks stands after an operand: none is unary
OnlyBinary(toks) ==
    /\ \A i \in DOMAIN toks : toks[i].type \in {"VALUE", "NUMBER", "OPERATOR", "LPAREN", "RPAREN"}
    /\ \A i \in DOMAIN toks :
           toks[i].type = "OPERATOR"
               => /\ toks[i].value \in ArithmeticOps
                  /\ i > 1
                  /\ toks[i - 1].type \in {"VALUE", "NUMBER", "RPAREN"}

\* C6: for a valid arithmetic stream of operands, binary + - * / ** and
\* parentheses, the AST of math is the reference grouping: ** over * and /
\* over + and -, equal ranks left to right, ** right to left, a
\* parenthesized sub-expression as one operand.
C6_Grouping ==
    (compiled.mode = "math" /\ compiled.result.ok /\ OnlyBinary(stream))
        => compiled.result.ast = ReferenceTree(stream)

\* a ** b ** c grouped to the right
C6_Witness ==
    /\ compiled.mode = "math"
    /\ compiled.result.ok
    /\ stream = <<ValueTok(0), OperatorTok("**"), ValueTok(1), OperatorTok("**"), ValueTok(2)>>
    /\ compiled.result.ast
           = BinaryNode("**", ValueNode(0), BinaryNode("**", ValueNode(1), ValueNode(2)))

\* toks is exactly one primary for the parser in this mode
IsPrimary(toks, mode) ==
    /\ toks # <<>>
    /\ parsePrimary(Append(toks, EofTok), mode, 0, FALSE).ok
    /\ parsePrimary(Append(toks, EofTok), mode, 0, FALSE).pos = Len(toks)

PrimaryTree(toks, mode) == parsePrimary(Append(toks, EofTok), mode, 0, FALSE).node

\* the operators math (arithmetic) and is (comparison) accept between two
\* primaries
AcceptedBetween(mode) == IF mode = "math" THEN ArithmeticOps ELSE COMPARISON_OPS

\* C7: a unary + or - binds tighter than every binary operator, ** included:
\* the stream u p op q, with u a unary sign, p and q primaries and op a
\* binary operator of the mode, parses as Binary(op, Unary(u, p), q).
C7_UnaryBindsTightest ==
    \A i \in 3 .. (Len(stream) - 1) :
        ( /\ compiled.mode \in {"math", "is"}
          /\ stream[1].type = "OPERATOR" /\ stream[1].value \in {"+", "-"}
          /\ stream[i].type = "OPERATOR" /\ stream[i].value \in AcceptedBetween(compiled.mode)
          /\ IsPrimary(SubSeq(stream, 2, i - 1), compiled.mode)
          /\ IsPrimary(SubSeq(stream, i + 1, Len(stream)), compiled.mode) )
            => /\ compiled.result.ok
               /\ compiled.result.ast
                      = BinaryNode(stream[i].value,
                                   UnaryNode(stream[1].value,
                                             PrimaryTree(SubSeq(stream, 2, i - 1), compiled.mode)),
                                   PrimaryTree(SubSeq(stream, i + 1, Len(stream)), compiled.mode))

\* -a ** b parsed as (-a) ** b
C7_Witness ==
    /\ compiled.mode = "math"
    /\ stream = <<OperatorTok("-"), ValueTok(0), OperatorTok("**"), ValueTok(1)>>
    /\ compiled.result.ok
    /\ compiled.result.ast
           = BinaryNode("**", UnaryNode("-", ValueNode(0)), ValueNode(1))

\* ------------------------------------------- claims on errors across calls
\* the text of identity k fails tokenizing, parsing or validation under fn
FailsFront(fn, k) == ~Front(templates[k], fn).ok

\* the error of the text of identity k under fn: a function of the text and
\* the entry point alone, so the same at every point of a behaviour
FrontError(fn, k) == Front(templates[k], fn).err

\* C11: when the text of identity k fails tokenizing, parsing or validation
\* under an entry point, every call of that entry point with k, whatever was
\* called before and whatever the values, tokenizes again, raises the error
\* of the text with the same content, evaluates nothing and leaves both
\* caches as they were.
C11_SameErrorNoStore ==
    [][(last' # last /\ FailsFront(last'.fn, last'.k))
           => /\ last'.tokenized
              /\ ~last'.evaluated
              /\ last'.outcome = [ok |-> FALSE, err |-> FrontError(last'.fn, last'.k)]
              /\ mathCache' = mathCache
              /\ isCache' = isCache
              /\ CacheOf(last'.fn)[last'.k] = Undefined]_vars

\* is fails for want of a comparison on an identity that math has cached,
\* after an earlier call of is with other values raised the same error
C11_Witness ==
    /\ last.fn = "is"
    /\ FailsFront("is", last.k)
    /\ mathCache[last.k] # Undefined
    /\ last.outcome = Throw("'is' template requires a comparison operator", "")

\* ------------------------------------------------ claims on function calls
\* the parse consumed the whole stream: Compile succeeded, or failed only for
\* want of a comparison in is
ParsedToEof ==
    \/ compiled.result.ok
    \/ compiled.result = Throw("'is' template requires a comparison operator", "")

\* the commas of a call that separate its arguments
ArgCommas(toks) ==
    {i \in 3 .. Len(toks) - 1 : toks[i].type = "COMMA" /\ DepthAt(toks, i) = 1}

\* the positions that delimit the arguments: the opening parenthesis, the
\* separating commas, the closing parenthesis
ArgBounds(toks) == {2} \cup ArgCommas(toks) \cup {Len(toks)}

\* the tokens of the argument that starts after the delimiter b
ArgAfter(toks, b) ==
    SubSeq(toks, b + 1, (CHOOSE c \in ArgBounds(toks) :
                             c > b /\ \A d \in ArgBounds(toks) : d > b => c <= d) - 1)

\* toks is  name '(' arg (',' arg)* ')'  with every arg an expression
CallGrammar(toks) ==
    /\ Len(toks) >= 4
    /\ toks[1].type = "FUNCTION"
    /\ toks[2].type = "LPAREN"
    /\ toks[Len(toks)].type = "RPAREN"
    /\ \A i \in 2 .. Len(toks) - 1 : DepthAt(toks, i) >= 1
    /\ \A b \in ArgBounds(toks) \ {Len(toks)} :
           Compile(Append(ArgAfter(toks, b), EofTok), "math").ok

ArgCount(toks) == Cardinality(ArgCommas(toks)) + 1

ArityOf(name) == IF name = "clamp" THEN 3 ELSE 1

\* C12 (as claimed): a call is accepted exactly when its tokens are
\* name '(' arg (',' arg)* ')' with a name of the fixed set and 3 arguments
\* for clamp, 1 for every other function.
C12_CallGrammar ==
    (profile = "call" /\ compiled # NotCompiled)
        => (ParsedToEof <=> /\ CallGrammar(stream)
                            /\ stream[1].value \in validFunctions
                            /\ ArgCount(stream) = ArityOf(stream[1].value))

\* the streams the parser accepts although a comma is not followed by an
\* argument: the call with the last comma removed is a call of the grammar
TrailingComma(toks) ==
    /\ Len(toks) >= 5
    /\ toks[Len(toks)].type = "RPAREN"
    /\ toks[Len(toks) - 1].type = "COMMA"
    /\ CallGrammar(Append(SubSeq(toks, 1, Len(toks) - 2), RParenTok))
    /\ toks[1].value \in validFunctions
    /\ ArgCount(toks) - 1 = ArityOf(toks[1].value)

\* what the parser does: the grammar of C12, with one comma allowed before
\* the closing parenthesis
C12_UpToTrailingComma ==
    (profile = "call" /\ compiled # NotCompiled)
        => (ParsedToEof <=> \/ /\ CallGrammar(stream)
                               /\ stream[1].value \in validFunctions
                               /\ ArgCount(stream) = ArityOf(stream[1].value)
                            \/ TrailingComma(stream))

\* math accepted a call whose comma is followed by the closing parenthesis
C12_Witness ==
    /\ profile = "call"
    /\ compiled # NotCompiled
    /\ compiled.mode = "math"
    /\ compiled.result.ok
    /\ TrailingComma(stream)

\* ---------------------------------------------- claims on tokenizer runs
\* the tokens of one fragment on its own, EOF left out
FragmentTokens(str) ==
    SubSeq(tokenize(<<str>>).tokens, 1, Len(tokenize(<<str>>).tokens) - 1)

\* the stream laid out fragment by fragment from fragment i (1-based) on:
\* the tokens of the fragment, then the VALUE token of the slot after it
RECURSIVE LaidOut(_, _)
LaidOut(frags, i) ==
    IF i > Len(frags) THEN <<EofTok>>
    ELSE FragmentTokens(frags[i])
             \o (IF i < Len(frags) THEN <<ValueTok(i - 1)>> ELSE <<>>)
             \o LaidOut(frags, i + 1)

IsValueTok(t) == t.type = "VALUE"

IsEofTok(t) == t.type = "EOF"

\* C13: when tokenize returns for n fragments, the stream has n-1 VALUE
\* tokens carrying 0 .. n-2 in this order, one EOF token, the last token,
\* and is the tokens of each fragment on its own, in order, with VALUE i
\* between those of fragment i and those of fragment i+1.
C13_ValueAndEof ==
    (scanned # NotScanned /\ scanned.ok)
        => /\ SelectSeq(scanned.tokens, IsValueTok)
                  = [i \in 1 .. Len(fragments) - 1 |-> ValueTok(i - 1)]
           /\ SelectSeq(scanned.tokens, IsEofTok) = <<EofTok>>
           /\ scanned.tokens[Len(scanned.tokens)] = EofTok
           /\ \A i \in DOMAIN fragments : tokenize(<<fragments[i]>>).ok
           /\ scanned.tokens = LaidOut(fragments, 1)

\* three fragments, a digit at the end of the first and at the start of the
\* second: two NUMBER tokens with VALUE 0 between them
C13_Witness ==
    /\ fragments = << <<"1">>, <<"1">>, <<>> >>
    /\ scanned # NotScanned
    /\ scanned.ok
    /\ scanned.tokens = <<NumberTok(<<"1">>), ValueTok(0), NumberTok(<<"1">>),
                          ValueTok(1), EofTok>>

\* -------------------------------------------- claims on the cached ASTs
\* whether any node of the tree is a binary node of a comparison operator
RECURSIVE ContainsComparison(_)
ContainsComparison(node) ==
    IF node.type = "unary" THEN ContainsComparison(node.operand)
    ELSE IF node.type = "binary"
         THEN \/ node.op \in COMPARISON_OPS
              \/ ContainsComparison(node.left)
              \/ ContainsComparison(node.right)
    ELSE IF node.type = "function"
         THEN \E i \in DOMAIN node.args : ContainsComparison(node.args[i])
    ELSE FALSE

\* a comparison at the root and nowhere else
ComparisonAtRootOnly(ast) ==
    /\ ast.type = "binary"
    /\ ast.op \in COMPARISON_OPS
    /\ ~ContainsComparison(ast.left)
    /\ ~ContainsComparison(ast.right)

\* the shape of an AST that an entry point stores
StoredShape(fn, ast) ==
    IF fn = "is" THEN ComparisonAtRootOnly(ast) ELSE ~ContainsComparison(ast)

\* the value an is call returns when the evaluation of its AST completes:
\* the comparison of the root applied to the values of the two operands
RootComparison(ast, values) ==
    Returned(Bool(DecCompare(ast.op, interpret(ast.left, values).val,
                             interpret(ast.right, values).val)))

C14_CompiledShape ==
    (compiled # NotCompiled /\ compiled.result.ok)
        => StoredShape(compiled.mode, compiled.result.ast)

\* ------------------------------------------ claims on the parser position
\* the 0-based index of the EOF token of the stream
EofIndex == Len(stream)

\* the thresholds parseExpression is called with: 0, and the precedence of
\* an operator (**) or one more (the others)
Thresholds == {0, 2, 3, 4}

\* r is the outcome of a parsing method entered at position p: current()
\* never read past the stream, and a method that returned left the position
\* past p and at most at the EOF token
PositionKept(p, r) ==
    /\ r # TypeErrorUndefined
    /\ r.ok => (p < r.pos /\ r.pos <= EofIndex)

\* C15: on every stream and in both modes the parse of math and is never
\* reads past the stream; and on the streams of up to MaxEntryLen tokens,
\* whatever position parsePrimary or parseExpression is entered at, with any
\* threshold, level and comparison flag, current() returns a token of the
\* stream throughout and the method returns with the position advanced and
\* not past the EOF token.
C15_NeverPastEof ==
    compiled # NotCompiled
        => /\ compiled.result # TypeErrorUndefined
           /\ (Len(stream) <= MaxEntryLen)
                  => \A p \in 0 .. EofIndex, flag \in BOOLEAN :
                         /\ PositionKept(p, parsePrimary(Tokens, compiled.mode, p, flag))
                         /\ \A minPrec \in Thresholds, isTopLevel \in BOOLEAN :
                                PositionKept(p, parseExpression(Tokens, compiled.mode, p,
                                                                flag, minPrec, isTopLevel))

\* the parser read the EOF token where an operand was due and stopped there
C15_Witness ==
    /\ compiled # NotCompiled
    /\ Len(stream) >= 3
    /\ stream[Len(stream)].type = "OPERATOR"
    /\ compiled.result = Throw("Unexpected token", "EOF")

====
